---- MODULE Spec2Model ----
(***************************************************************************)
(* Credential resolution and client routing of the GitLab MCP server:      *)
(* GitLabGraphQLClient (client cache, auth decision, schema cache), the    *)
(* tool table, and the CallTool dispatcher / startup of GitLabMCPServer.   *)
(*                                                                         *)
(* JavaScript runs one callback at a time: a handler runs without          *)
(* interruption up to its `await client.request(...)`, so every action     *)
(* below is either the synchronous prefix of a call (up to the await) or   *)
(* the continuation that runs when the exchange settles.                   *)
(***************************************************************************)
EXTENDS Integers, Sequences, FiniteSets, TLC

VARIABLES
    env,          \* process.env as read by loadConfig
    phase,        \* GitLabMCPServer.run: "created", "constructed", "introspecting", "connected"
    config,       \* GitLabGraphQLClient.config
    baseClient,   \* GitLabGraphQLClient.baseClient (0 = null, else a client id)
    userClients,  \* GitLabGraphQLClient.userClients : userKey -> client id
    schema,       \* GitLabGraphQLClient.schema
    clients,      \* every GraphQLClient constructed so far; a client id is its index
    inflight,     \* calls suspended at `await client.request(...)`
    nCalls,       \* number of calls started so far
    last,         \* what the most recent step did (the observable event)
    handed,       \* history: (effective endpoint, token, client) triples returned by getUserClient
    stores        \* history: the calls that assigned this.schema

vars == <<env, phase, config, baseClient, userClients, schema, clients,
          inflight, nCalls, last, handed, stores>>

----------------------------------------------------------------------------
(* Bounds *)

MaxCalls == 2       \* calls started in one behaviour
MaxInFlight == 2    \* calls suspended at their await at the same time

----------------------------------------------------------------------------
(* Values *)

AuthModes == {"shared", "per-user", "hybrid"}

ProcessUrl == "https://h"
OtherUrl == "https://h:80"

\* A UserConfig; present = FALSE stands for `undefined`, gitlabUrl = "" for an
\* omitted override.
NoCred == [present |-> FALSE, gitlabUrl |-> "", accessToken |-> ""]

Cred(u, t) == [present |-> TRUE, gitlabUrl |-> u, accessToken |-> t]

\* The credentials callers present: no override and an override equal to the
\* process URL (one identity), another endpoint, and tokens with and without ':'
UserCreds ==
    { Cred("", "x"), Cred("", "80:x"), Cred(ProcessUrl, "80:x"), Cred(OtherUrl, "x") }

\* userCredentials objects a tool caller can send: also one the schema rejects.
EmptyTokenCred == [present |-> TRUE, gitlabUrl |-> "", accessToken |-> ""]

NoSchema == [present |-> FALSE, by |-> 0]

NoError == << >>

WriteAuthMsg ==
    "Write operations require user authentication. Please provide your GitLab credentials."
UserAuthMsg ==
    "This operation requires user authentication. Please provide your GitLab credentials."
NoAuthMsg ==
    "No authentication configured. Please provide GitLab credentials or configure a shared access token."

----------------------------------------------------------------------------
(* config.ts *)

\* parseInt(process.env.GITLAB_TIMEOUT || '30000')
DefaultTimeoutMs == 30000

\* parseInt(process.env.GITLAB_MAX_PAGE_SIZE || '50')
DefaultMaxPageSize == 50

\* The result of parseInt on a string that does not start with a digit
NaN == -1

Digits == <<"0", "1", "2", "3", "4", "5", "6", "7", "8", "9">>

IsDigit(c) == \E d \in 1..10 : Digits[d] = c

DigitValue(c) == (CHOOSE d \in 1..10 : Digits[d] = c) - 1

\* The number of leading decimal digits of s
RECURSIVE LeadingDigits(_)
LeadingDigits(s) ==
    IF Len(s) > 0 /\ IsDigit(SubSeq(s, 1, 1))
    THEN 1 + LeadingDigits(SubSeq(s, 2, Len(s)))
    ELSE 0

RECURSIVE DecimalValue(_)
DecimalValue(s) ==
    IF Len(s) = 0 THEN 0
    ELSE 10 * DecimalValue(SubSeq(s, 1, Len(s) - 1)) + DigitValue(SubSeq(s, Len(s), Len(s)))

\* parseInt(s) for unsigned decimal text: the value of the leading digits
ParseInt(s) ==
    IF LeadingDigits(s) = 0 THEN NaN ELSE DecimalValue(SubSeq(s, 1, LeadingDigits(s)))

\* loadConfig before ConfigSchema.parse: `process.env.X || default`, an unset
\* variable being ""
loadConfig(e) ==
    [ gitlabUrl |-> IF e.GITLAB_URL = "" THEN "https://gitlab.com" ELSE e.GITLAB_URL,
      sharedAccessToken |-> e.GITLAB_SHARED_ACCESS_TOKEN,   \* "" stands for undefined
      maxPageSize |-> IF e.GITLAB_MAX_PAGE_SIZE = "" THEN DefaultMaxPageSize
                      ELSE ParseInt(e.GITLAB_MAX_PAGE_SIZE),
      defaultTimeout |-> IF e.GITLAB_TIMEOUT = "" THEN DefaultTimeoutMs
                         ELSE ParseInt(e.GITLAB_TIMEOUT),
      authMode |-> IF e.GITLAB_AUTH_MODE = "" THEN "hybrid" ELSE e.GITLAB_AUTH_MODE ]

\* z.string().url(): the text has a scheme followed by ':'
IsUrl(s) == \E i \in 2..Len(s) : SubSeq(s, i, i) = ":"

MinPageSize == 1
MaxPageSizeLimit == 100
MinTimeoutMs == 1000

\* ConfigSchema without the .min(1000) of defaultTimeout
ConfigSchemaAcceptsAnyTimeout(c) ==
    /\ IsUrl(c.gitlabUrl)
    /\ c.maxPageSize # NaN /\ c.maxPageSize >= MinPageSize /\ c.maxPageSize <= MaxPageSizeLimit
    /\ c.authMode \in AuthModes

\* ConfigSchema.parse(config) does not throw
ConfigSchemaAccepts(c) ==
    /\ IsUrl(c.gitlabUrl)
    /\ c.maxPageSize # NaN /\ c.maxPageSize >= MinPageSize /\ c.maxPageSize <= MaxPageSizeLimit
    /\ c.defaultTimeout # NaN /\ c.defaultTimeout >= MinTimeoutMs
    /\ c.authMode \in AuthModes

NoConfig ==
    [ gitlabUrl |-> "", sharedAccessToken |-> "", maxPageSize |-> 0,
      defaultTimeout |-> 0, authMode |-> "" ]

----------------------------------------------------------------------------
(* GitLabGraphQLClient *)

\* gitlabUrl.replace(/\/$/, '')
StripTrailingSlash(url) ==
    IF \E b \in {ProcessUrl, OtherUrl, "https://gitlab.com"} : url = b \o "/"
    THEN CHOOSE b \in {ProcessUrl, OtherUrl, "https://gitlab.com"} : url = b \o "/"
    ELSE url

\* The request timeout of a GraphQLClient constructed without one
NoTimeout == 0

\* createClient: the GraphQLClient object. Its options are the two headers; no
\* timeout, signal or fetch option is passed.
createClient(gitlabUrl, accessToken) ==
    [ endpoint |-> StripTrailingSlash(gitlabUrl) \o "/api/graphql",
      authorization |-> "Bearer " \o accessToken,
      timeout |-> NoTimeout ]

\* userConfig.gitlabUrl || this.config.gitlabUrl
EffectiveUrl(userConfig) ==
    IF userConfig.gitlabUrl # "" THEN userConfig.gitlabUrl ELSE config.gitlabUrl

UserKey(userConfig) == EffectiveUrl(userConfig) \o ":" \o userConfig.accessToken

\* getUserClient keeping only the most recently created entry
getUserClientSingleEntry(userConfig) ==
    LET userKey == UserKey(userConfig) IN
    IF userKey \notin DOMAIN userClients
    THEN [ client |-> Len(clients) + 1,
           clients |-> Append(clients,
                              createClient(EffectiveUrl(userConfig), userConfig.accessToken)),
           userClients |-> (userKey :> Len(clients) + 1) ]
    ELSE [ client |-> userClients[userKey], clients |-> clients,
           userClients |-> userClients ]

\* getUserClient without the userClients.has(userKey) test: a client per call
getUserClientAlwaysCreate(userConfig) ==
    [ client |-> Len(clients) + 1,
      clients |-> Append(clients,
                         createClient(EffectiveUrl(userConfig), userConfig.accessToken)),
      userClients |-> [ k \in DOMAIN userClients \cup {UserKey(userConfig)} |->
                          IF k = UserKey(userConfig) THEN Len(clients) + 1
                          ELSE userClients[k] ] ]

\* getUserClient: the client returned and the cache after the call
getUserClient(userConfig) ==
    LET userKey == UserKey(userConfig) IN
    IF userKey \notin DOMAIN userClients
    THEN [ client |-> Len(clients) + 1,
           clients |-> Append(clients,
                              createClient(EffectiveUrl(userConfig), userConfig.accessToken)),
           userClients |-> userClients @@ (userKey :> Len(clients) + 1) ]
    ELSE [ client |-> userClients[userKey],
           clients |-> clients,
           userClients |-> userClients ]

\* The outcomes of getClient
UseUser(userConfig) ==
    LET r == getUserClient(userConfig) IN
    [ decision |-> "user", client |-> r.client, error |-> NoError,
      clients |-> r.clients, userClients |-> r.userClients ]
UseShared ==
    [ decision |-> "shared", client |-> baseClient, error |-> NoError,
      clients |-> clients, userClients |-> userClients ]
Throw(message) ==
    [ decision |-> "throw", client |-> 0, error |-> <<message>>,
      clients |-> clients, userClients |-> userClients ]

\* getClient trying the shared client before looking at userConfig
getClientSharedFirst(userConfig, requiresWrite) ==
    IF ~requiresWrite /\ baseClient # 0 /\ config.authMode # "per-user" THEN UseShared
    ELSE IF userConfig.present THEN UseUser(userConfig)
    ELSE IF requiresWrite THEN Throw(WriteAuthMsg)
    ELSE IF config.authMode = "per-user" \/ config.authMode = "hybrid" THEN Throw(UserAuthMsg)
    ELSE Throw(NoAuthMsg)

\* getClient without the requiresWrite test
getClientNoWriteCheck(userConfig, requiresWrite) ==
    IF userConfig.present THEN UseUser(userConfig)
    ELSE IF baseClient # 0 /\ config.authMode # "per-user" THEN UseShared
    ELSE IF config.authMode = "per-user" \/ config.authMode = "hybrid" THEN Throw(UserAuthMsg)
    ELSE Throw(NoAuthMsg)

\* getClient testing only this.baseClient before returning it
getClientIgnoresMode(userConfig, requiresWrite) ==
    IF userConfig.present THEN UseUser(userConfig)
    ELSE IF requiresWrite THEN Throw(WriteAuthMsg)
    ELSE IF baseClient # 0 THEN UseShared
    ELSE IF config.authMode = "per-user" \/ config.authMode = "hybrid" THEN Throw(UserAuthMsg)
    ELSE Throw(NoAuthMsg)

\* getClient asking for user authentication in per-user mode only
getClientHybridUnconfigured(userConfig, requiresWrite) ==
    IF userConfig.present THEN UseUser(userConfig)
    ELSE IF requiresWrite THEN Throw(WriteAuthMsg)
    ELSE IF baseClient # 0 /\ config.authMode # "per-user" THEN UseShared
    ELSE IF config.authMode = "per-user" THEN Throw(UserAuthMsg)
    ELSE Throw(NoAuthMsg)

\* getClient serving a read without credentials from the user-client cache
\* when the shared client cannot be used
getClientFallsBackToCache(userConfig, requiresWrite) ==
    IF userConfig.present THEN UseUser(userConfig)
    ELSE IF requiresWrite THEN Throw(WriteAuthMsg)
    ELSE IF baseClient # 0 /\ config.authMode # "per-user" THEN UseShared
    ELSE IF DOMAIN userClients # {}
    THEN [ decision |-> "user",
           client |-> userClients[CHOOSE k \in DOMAIN userClients : TRUE],
           error |-> NoError, clients |-> clients, userClients |-> userClients ]
    ELSE IF config.authMode = "per-user" \/ config.authMode = "hybrid" THEN Throw(UserAuthMsg)
    ELSE Throw(NoAuthMsg)

\* getClient: decision "user" / "shared" with the client, or "throw" with the message
getClient(userConfig, requiresWrite) ==
    IF userConfig.present THEN UseUser(userConfig)
    ELSE IF requiresWrite THEN Throw(WriteAuthMsg)
    ELSE IF baseClient # 0 /\ config.authMode # "per-user" THEN UseShared
    ELSE IF config.authMode = "per-user" \/ config.authMode = "hybrid" THEN Throw(UserAuthMsg)
    ELSE Throw(NoAuthMsg)

\* Reason(e): the innermost message of an error (its root cause)
Reason(e) == e[Len(e)]

\* query / introspectSchema constructing an unauthenticated client before
\* getClient rejects the call
clientCallConstructsFirst(op, userConfig, requiresWrite) ==
    LET keep == [client |-> 0, clients |-> clients, userClients |-> userClients]
        r == getClient(userConfig, IF op = "introspect" THEN FALSE ELSE requiresWrite)
        wrap == IF op = "introspect"
                THEN "Failed to introspect GitLab GraphQL schema"
                ELSE "GraphQL query failed"
    IN  IF op = "introspect" /\ schema.present
        THEN keep @@ [status |-> "ok", decision |-> "none", error |-> NoError]
        ELSE IF r.decision = "throw"
        THEN [ status |-> "error", decision |-> "throw", error |-> <<wrap>> \o r.error,
               client |-> 0,
               clients |-> Append(clients, createClient(config.gitlabUrl, "")),
               userClients |-> userClients ]
        ELSE [ status |-> "sent", decision |-> r.decision, error |-> NoError,
               client |-> r.client, clients |-> r.clients, userClients |-> r.userClients ]

\* The synchronous prefix of introspectSchema / query, up to the await:
\*   status "ok"    - returned without an exchange (schema already stored)
\*   status "error" - getClient threw; the catch block wraps and rethrows
\*   status "sent"  - client.request(...) was issued on `client`
clientCall(op, userConfig, requiresWrite) ==
    LET keep == [client |-> 0, clients |-> clients, userClients |-> userClients]
        r == getClient(userConfig, IF op = "introspect" THEN FALSE ELSE requiresWrite)
        wrap == IF op = "introspect"
                THEN "Failed to introspect GitLab GraphQL schema"
                ELSE "GraphQL query failed"
    IN  IF op = "introspect" /\ schema.present
        THEN keep @@ [status |-> "ok", decision |-> "none", error |-> NoError]
        ELSE IF r.decision = "throw"
        THEN keep @@ [status |-> "error", decision |-> "throw", error |-> <<wrap>> \o r.error]
        ELSE [ status |-> "sent", decision |-> r.decision, error |-> NoError,
               client |-> r.client, clients |-> r.clients, userClients |-> r.userClients ]

\* getAvailableQueries without its `if (!this.schema) return []`
getAvailableQueriesUnguarded == <<"queries">>

\* getAvailableQueries / getAvailableMutations: [] while no schema is stored
getAvailableQueries == IF ~schema.present THEN << >> ELSE <<"queries">>
getAvailableMutations == IF ~schema.present THEN << >> ELSE <<"mutations">>

----------------------------------------------------------------------------
(* tools.ts *)

ReadToolNames ==
    { "get_project", "get_issues", "get_merge_requests",
      "get_current_user", "get_projects",
      "search_gitlab", "search_projects", "search_issues", "search_merge_requests",
      "search_users", "search_groups", "browse_repository", "get_file_content" }
WriteToolNames == { "create_issue", "create_merge_request" }
ToolNames ==
    ReadToolNames \cup WriteToolNames \cup {"execute_custom_query", "get_available_queries"}

\* The Tool objects: flags, whether the input schema requires userCredentials
\* (withUserAuth(..., true)), and which client method the handler calls.
tools ==
    [ n \in ToolNames |->
        [ requiresAuth |-> n \in WriteToolNames \cup {"get_current_user", "get_projects"},
          requiresWrite |-> n \in WriteToolNames,
          credentialsRequired |-> n \in WriteToolNames,
          method |-> CASE n \in WriteToolNames -> "create"
                       [] n = "execute_custom_query" -> "query"
                       [] n = "get_available_queries" -> "introspectSchema"
                       [] OTHER -> "read" ] ]

userAuthTools == {"get_current_user", "get_projects"}

\* The tools whose input schema has `first: z.number().min(1).max(100).default(20)`
PagedToolNames ==
    { "get_projects", "get_issues", "get_merge_requests", "search_projects",
      "search_issues", "search_merge_requests", "search_users", "search_groups" }

\* An omitted `first` argument, and a request without a `first` variable
NoFirst == 0
DefaultFirst == 20
MinFirst == 1
MaxFirst == 100

\* tool.inputSchema.parse(args): args.wellFormed says the other fields pass
inputSchemaAccepts(name, args) ==
    /\ args.wellFormed
    /\ (name \in PagedToolNames /\ args.first # NoFirst) =>
          (args.first >= MinFirst /\ args.first <= MaxFirst)
    /\ IF args.userCredentials.present
       THEN args.userCredentials.accessToken # ""
       ELSE ~tools[name].credentialsRequired

\* The handler up to its client call. The dispatcher has already deleted
\* input.userCredentials, so `credentials` is the userConfig it passes.
\*   throws # NoError : the handler threw before calling the client
handler(name, args, userConfig) ==
    LET credentials == userConfig
        m == tools[name].method
    IN  CASE m = "create" ->
               [ throws |-> IF ~credentials.present
                            THEN IF name = "create_issue"
                                 THEN <<"User authentication is required for creating issues. Please provide your GitLab credentials.">>
                                 ELSE <<"User authentication is required for creating merge requests. Please provide your GitLab credentials.">>
                            ELSE NoError,
                 op |-> "query", requiresWrite |-> TRUE, payload |-> "mutation",
                 first |-> NoFirst, credentials |-> credentials ]
          [] m = "query" ->
               [ throws |-> IF args.requiresWrite /\ ~credentials.present
                            THEN <<"User authentication is required for write operations. Please provide your GitLab credentials.">>
                            ELSE NoError,
                 op |-> "query", requiresWrite |-> args.requiresWrite,
                 payload |-> args.payload, first |-> NoFirst, credentials |-> credentials ]
          [] m = "introspectSchema" ->
               [ throws |-> NoError, op |-> "introspect", requiresWrite |-> FALSE,
                 payload |-> "introspection", first |-> NoFirst,
                 credentials |-> credentials ]
          [] OTHER ->
               \* the `first` variable of the request: the validated input's
               \* (default 20), and for globalSearch this.config.maxPageSize
               [ throws |-> NoError, op |-> "query", requiresWrite |-> FALSE,
                 payload |-> "query",
                 first |-> IF name \in PagedToolNames
                           THEN IF args.first = NoFirst THEN DefaultFirst ELSE args.first
                           ELSE IF name = "search_gitlab" THEN config.maxPageSize
                           ELSE NoFirst,
                 credentials |-> credentials ]

\* The tools callers invoke: every handler of tools.ts that differs from the others
\* in more than the query text it sends, and a name that is not registered
CalledTools ==
    { "get_project", "get_current_user", "get_projects",
      "create_issue", "create_merge_request", "execute_custom_query",
      "get_available_queries", "no_such_tool" }

\* Arguments a caller may send to each tool
ArgsByTool ==
    [ name \in CalledTools |->
        { a \in [ userCredentials : UserCreds \cup {NoCred, EmptyTokenCred},
                  wellFormed : BOOLEAN,
                  requiresWrite : BOOLEAN,
                  payload : {"query", "mutation", "introspection"},
                  first : {NoFirst} ] :
            /\ ~a.wellFormed => a.userCredentials = NoCred
            /\ a.requiresWrite => name = "execute_custom_query"
            /\ a.payload \in
                 (IF name = "execute_custom_query" THEN {"query", "mutation"}
                  ELSE IF name \in WriteToolNames THEN {"mutation"}
                  ELSE IF name = "get_available_queries" THEN {"introspection"}
                  ELSE {"query"}) } ]

\* Arguments a caller may send to tool `name`
ToolArgs(name) == ArgsByTool[name]

----------------------------------------------------------------------------
(* State machine *)

NoEvent ==
    [ seq |-> 0, event |-> "none", origin |-> "-", tool |-> "-", op |-> "-",
      cred |-> NoCred, requiresWrite |-> FALSE, payload |-> "-",
      decision |-> "none", client |-> 0, constructed |-> FALSE,
      status |-> "-", error |-> NoError, result |-> << >>, first |-> NoFirst,
      response |-> "-" ]

Init ==
    /\ env \in [ GITLAB_URL : {ProcessUrl},
                 GITLAB_SHARED_ACCESS_TOKEN : {"", "s"},
                 GITLAB_MAX_PAGE_SIZE : {""},
                 GITLAB_TIMEOUT : {""},
                 GITLAB_AUTH_MODE : AuthModes ]
    /\ phase = "created"
    /\ config = NoConfig
    /\ baseClient = 0
    /\ userClients = << >>
    /\ schema = NoSchema
    /\ clients = << >>
    /\ inflight = << >>
    /\ nCalls = 0
    /\ last = NoEvent
    /\ handed = {}
    /\ stores = {}

\* The step that starts call number nCalls + 1 with the given client operation
StartCall(origin, tool, op, cred, requiresWrite, payload, first) ==
    \E r \in {clientCall(op, cred, requiresWrite)} :
    LET id == nCalls + 1
        mcp == IF origin = "tool" /\ r.error # NoError THEN <<"InternalError">> ELSE NoError
    IN  /\ nCalls' = id
        /\ clients' = r.clients
        /\ userClients' = r.userClients
        /\ handed' = IF r.decision = "user"
                     THEN handed \cup { [ endpoint |-> EffectiveUrl(cred),
                                          token |-> cred.accessToken,
                                          client |-> r.client ] }
                     ELSE handed
        /\ inflight' = IF r.status = "sent"
                       THEN inflight @@ (id :> [ origin |-> origin, tool |-> tool, op |-> op,
                                                 client |-> r.client ])
                       ELSE inflight
        /\ last' = [ seq |-> id, event |-> "start", origin |-> origin, tool |-> tool,
                     op |-> op, cred |-> cred, requiresWrite |-> requiresWrite,
                     payload |-> payload, decision |-> r.decision, client |-> r.client,
                     constructed |-> (Len(r.clients) > Len(clients)),
                     status |-> r.status, error |-> mcp \o r.error,
                     \* get_available_queries returning without an exchange
                     result |-> IF r.status = "ok" /\ origin = "tool"
                                THEN getAvailableQueries \o getAvailableMutations
                                ELSE << >>,
                     \* the page size of the request, when one is sent
                     first |-> IF r.status = "sent" THEN first ELSE NoFirst,
                     response |-> "-" ]

\* A dispatcher whose catch block returns an empty result
FailCallAnsweredAsSuccess(origin, tool, cred, requiresWrite, payload, error) ==
    /\ nCalls' = nCalls + 1
    /\ last' = [ NoEvent EXCEPT !.seq = nCalls + 1, !.event = "start", !.origin = origin,
                 !.tool = tool, !.cred = cred, !.requiresWrite = requiresWrite,
                 !.payload = payload, !.status = "ok" ]
    /\ UNCHANGED <<clients, userClients, handed, inflight>>

\* A call that fails before any client method is reached
FailCall(origin, tool, cred, requiresWrite, payload, error) ==
    /\ nCalls' = nCalls + 1
    /\ last' = [ NoEvent EXCEPT !.seq = nCalls + 1, !.event = "start", !.origin = origin,
                 !.tool = tool, !.cred = cred, !.requiresWrite = requiresWrite,
                 !.payload = payload, !.status = "error", !.error = error ]
    /\ UNCHANGED <<clients, userClients, handed, inflight>>

\* run with a constructor that leaves baseClient null
RunWithoutSharedClient ==
    /\ phase = "created"
    /\ ConfigSchemaAccepts(loadConfig(env))
    /\ config' = loadConfig(env)
    /\ baseClient' = 0
    /\ clients' = clients
    /\ phase' = "constructed"
    /\ last' = [NoEvent EXCEPT !.event = "boot"]
    /\ UNCHANGED <<env, userClients, schema, inflight, nCalls, handed, stores>>

\* GitLabMCPServer.run: loadConfig and new GitLabGraphQLClient(config). It runs on
\* into Startup within the same callback: nothing else is enabled in between.
Run ==
    /\ phase = "created"
    /\ ConfigSchemaAccepts(loadConfig(env))
    /\ LET c == loadConfig(env) IN
       /\ config' = c
       /\ IF c.sharedAccessToken # ""
          THEN /\ baseClient' = 1
               /\ clients' = <<createClient(c.gitlabUrl, c.sharedAccessToken)>>
          ELSE /\ baseClient' = 0
               /\ clients' = clients
       /\ phase' = "constructed"
    /\ last' = [NoEvent EXCEPT !.event = "boot"]
    /\ UNCHANGED <<env, userClients, schema, inflight, nCalls, handed, stores>>

\* GitLabMCPServer.run when loadConfig throws: the catch block logs and calls
\* process.exit(1); nothing was constructed and the transport is never connected
RunFails ==
    /\ phase = "created"
    /\ ~ConfigSchemaAccepts(loadConfig(env))
    /\ phase' = "exited"
    /\ last' = [NoEvent EXCEPT !.event = "exit", !.status = "error",
                                !.error = <<"Failed to start server:", "ZodError">>]
    /\ UNCHANGED <<env, config, baseClient, userClients, schema, clients, inflight,
                   nCalls, handed, stores>>

\* GitLabMCPServer.run, continued: the startup introspection when a shared token
\* is configured (a failure is caught and logged), then server.connect(transport)
Startup ==
    /\ phase = "constructed"
    /\ IF config.sharedAccessToken # ""
       THEN /\ StartCall("startup", "-", "introspect", NoCred, FALSE, "introspection", NoFirst)
            /\ phase' = IF last'.status = "sent" THEN "introspecting" ELSE "connected"
       ELSE /\ phase' = "connected"
            /\ last' = [NoEvent EXCEPT !.event = "connect"]
            /\ UNCHANGED <<clients, userClients, handed, inflight, nCalls>>
    /\ UNCHANGED <<env, config, baseClient, schema, stores>>

\* A dispatcher that checks the userCredentials argument before it looks the
\* tool up
CallToolValidatesFirst(name, args) ==
    /\ phase = "connected"
    /\ nCalls < MaxCalls
    /\ Cardinality(DOMAIN inflight) < MaxInFlight
    /\ IF ~args.wellFormed
          \/ (args.userCredentials.present /\ args.userCredentials.accessToken = "")
       THEN FailCall("tool", name, args.userCredentials, args.requiresWrite, args.payload,
                     <<"InternalError", "ZodError">>)
       ELSE IF name \notin ToolNames
       THEN FailCall("tool", name, args.userCredentials, args.requiresWrite, args.payload,
                     <<"MethodNotFound", "Tool not found">>)
       ELSE IF ~inputSchemaAccepts(name, args)
       THEN FailCall("tool", name, args.userCredentials, args.requiresWrite, args.payload,
                     <<"InternalError", "ZodError">>)
       ELSE LET userConfig == args.userCredentials
                h == handler(name, args, userConfig)
            IN  IF h.throws # NoError
                THEN FailCall("tool", name, userConfig, h.requiresWrite, h.payload,
                              <<"InternalError">> \o h.throws)
                ELSE StartCall("tool", name, h.op, h.credentials, h.requiresWrite, h.payload,
                               h.first)
    /\ UNCHANGED <<env, phase, config, baseClient, schema, stores>>

\* The CallToolRequestSchema handler up to the handler's await
CallTool(name, args) ==
    /\ phase = "connected"
    /\ nCalls < MaxCalls
    /\ Cardinality(DOMAIN inflight) < MaxInFlight
    /\ IF name \notin ToolNames
       THEN FailCall("tool", name, args.userCredentials, args.requiresWrite, args.payload,
                     <<"MethodNotFound", "Tool not found">>)
       ELSE IF ~inputSchemaAccepts(name, args)
       THEN FailCall("tool", name, args.userCredentials, args.requiresWrite, args.payload,
                     <<"InternalError", "ZodError">>)
       ELSE LET userConfig == args.userCredentials
                h == handler(name, args, userConfig)
            IN  IF h.throws # NoError
                THEN FailCall("tool", name, userConfig, h.requiresWrite, h.payload,
                              <<"InternalError">> \o h.throws)
                ELSE StartCall("tool", name, h.op, h.credentials, h.requiresWrite, h.payload,
                               h.first)
    /\ UNCHANGED <<env, phase, config, baseClient, schema, stores>>

\* A direct call of the exported client's query(query, variables, userConfig, requiresWrite)
\* (createIssue and createMergeRequest are query(mutation, ..., userConfig, true))
ApiQuery(userConfig, requiresWrite, payload) ==
    /\ phase = "connected"
    /\ nCalls < MaxCalls
    /\ Cardinality(DOMAIN inflight) < MaxInFlight
    /\ StartCall("api", "-", "query", userConfig, requiresWrite, payload, NoFirst)
    /\ UNCHANGED <<env, phase, config, baseClient, schema, stores>>

\* A direct call of the exported client's introspectSchema(userConfig)
ApiIntrospect(userConfig) ==
    /\ phase = "connected"
    /\ nCalls < MaxCalls
    /\ Cardinality(DOMAIN inflight) < MaxInFlight
    /\ StartCall("api", "-", "introspect", userConfig, FALSE, "introspection", NoFirst)
    /\ UNCHANGED <<env, phase, config, baseClient, schema, stores>>

\* A query or introspectSchema that issues its request again when it failed
inflightAfterWithRetry(id, response) ==
    IF response = "failure" THEN inflight
    ELSE [ i \in DOMAIN inflight \ {id} |-> inflight[i] ]

\* The calls still awaiting an exchange once call `id` got its response: the
\* try block returns or the catch block throws, the call has no further request
inflightAfter(id, response) ==
    [ i \in DOMAIN inflight \ {id} |-> inflight[i] ]

\* run() without the inner try / catch around the startup introspection: its
\* failure reaches the outer catch and process.exit(1)
phaseAfterFatalIntrospection(origin, error) ==
    IF origin = "startup"
    THEN IF error = NoError THEN "connected" ELSE "exited"
    ELSE phase

\* The server's phase after the continuation of a call: run() goes on to
\* server.connect(transport) whether its introspectSchema returned or threw
phaseAfter(origin, error) ==
    IF origin = "startup" THEN "connected" ELSE phase

\* introspectSchema assigning this.schema whatever the exchange returned
schemaAfterAnyResult(id, op, error) ==
    IF op = "introspect" THEN [present |-> TRUE, by |-> id] ELSE schema

\* this.schema after the continuation of call `id`: introspectSchema assigns it
\* inside its try block, after the awaited request and buildClientSchema
schemaAfter(id, op, error) ==
    IF op = "introspect" /\ error = NoError THEN [present |-> TRUE, by |-> id] ELSE schema

\* What the remote answers to an exchange: well-formed data, data the consumer
\* cannot use (buildClientSchema throws, the handler reads a null field or finds
\* `errors`), or a failed request
Responses == {"data", "unusable", "failure"}

\* The continuation after `await client.request(...)` of call id
Respond(id, response) ==
    /\ id \in DOMAIN inflight
    /\ LET c == inflight[id]
           wrap == IF c.op = "introspect"
                   THEN "Failed to introspect GitLab GraphQL schema"
                   ELSE "GraphQL query failed"
           \* the error thrown by introspectSchema / query, if any
           clientError ==
               IF response = "failure" THEN <<wrap, "request failed">>
               ELSE IF response = "unusable" /\ c.op = "introspect"
               THEN <<wrap, "invalid introspection result">>
               ELSE NoError
           \* the error thrown by the tool handler after the client returned
           handlerError ==
               IF /\ c.origin = "tool" /\ clientError = NoError /\ response = "unusable"
                  /\ tools[c.tool].method \in {"read", "create"}
               THEN <<"handler could not read the result">>
               ELSE NoError
           error == IF c.origin = "tool" /\ clientError \o handlerError # NoError
                    THEN <<"InternalError">> \o clientError \o handlerError
                    ELSE clientError
           stored == c.op = "introspect" /\ clientError = NoError
       IN  /\ schema' = schemaAfter(id, c.op, clientError)
           /\ stores' = IF stored THEN stores \cup {id} ELSE stores
           /\ phase' = phaseAfter(c.origin, clientError)
           /\ last' = [ seq |-> id, event |-> "finish", origin |-> c.origin, tool |-> c.tool,
                        op |-> c.op, cred |-> NoCred, requiresWrite |-> FALSE,
                        payload |-> "-", decision |-> "none",
                        client |-> c.client, constructed |-> FALSE,
                        status |-> IF error = NoError THEN "ok" ELSE "error",
                        error |-> error,
                        \* get_available_queries reads the views after introspectSchema
                        result |-> IF stored /\ c.origin = "tool"
                                   THEN getAvailableQueries' \o getAvailableMutations'
                                   ELSE << >>,
                        first |-> NoFirst,
                        \* what the awaited client.request produced
                        response |-> response ]
    /\ inflight' = inflightAfter(id, response)
    /\ UNCHANGED <<env, config, baseClient, userClients, clients, nCalls, handed>>

\* A direct call of the exported client's getAvailableQueries() or
\* getAvailableMutations(): synchronous, it returns the view
ApiView(view) ==
    /\ phase = "connected"
    /\ last' = [ NoEvent EXCEPT !.event = "view", !.origin = "api", !.op = view,
                 !.status = "ok",
                 !.result = IF view = "getAvailableQueries" THEN getAvailableQueries
                            ELSE getAvailableMutations ]
    /\ UNCHANGED <<env, phase, config, baseClient, userClients, schema, clients,
                   inflight, nCalls, handed, stores>>

Next ==
    \/ Run
    \/ Startup
    \/ \E name \in CalledTools : \E args \in ToolArgs(name) :
          CallTool(name, args)
    \/ \E c \in UserCreds \cup {NoCred}, rw \in BOOLEAN, p \in {"query", "mutation"} :
          ApiQuery(c, rw, p)
    \/ \E c \in UserCreds \cup {NoCred} : ApiIntrospect(c)
    \/ \E id \in DOMAIN inflight, r \in Responses : Respond(id, r)

Spec == Init /\ [][Next]_vars

\* The exported GitLabGraphQLClient driven directly: its request methods, its
\* schema views and the continuations of its exchanges, after the same start-up
ClientNext ==
    \/ Run
    \/ Startup
    \/ \E c \in UserCreds \cup {NoCred}, rw \in BOOLEAN, p \in {"query", "mutation"} :
          ApiQuery(c, rw, p)
    \/ \E c \in UserCreds \cup {NoCred} : ApiIntrospect(c)
    \/ \E v \in {"getAvailableQueries", "getAvailableMutations"} : ApiView(v)
    \/ \E id \in DOMAIN inflight, r \in Responses : Respond(id, r)

ClientSpec == Init /\ [][ClientNext]_vars

\* The whole server started under any environment: the default one with one
\* variable changed, to another accepted value or to one ConfigSchema rejects
DefaultEnv ==
    [ GITLAB_URL |-> ProcessUrl, GITLAB_SHARED_ACCESS_TOKEN |-> "s",
      GITLAB_MAX_PAGE_SIZE |-> "", GITLAB_TIMEOUT |-> "", GITLAB_AUTH_MODE |-> "" ]

ServerEnvs ==
    {DefaultEnv}
    \cup {[DefaultEnv EXCEPT !.GITLAB_URL = v] : v \in {"", "gitlab.local"}}
    \cup {[DefaultEnv EXCEPT !.GITLAB_SHARED_ACCESS_TOKEN = v] : v \in {""}}
    \cup {[DefaultEnv EXCEPT !.GITLAB_MAX_PAGE_SIZE = v] : v \in {"0", "10", "101", "many"}}
    \cup {[DefaultEnv EXCEPT !.GITLAB_TIMEOUT = v] : v \in {"999", "1000"}}
    \cup {[DefaultEnv EXCEPT !.GITLAB_AUTH_MODE = v] : v \in {"per-user", "shared", "admin"}}

ServerInit ==
    /\ env \in ServerEnvs
    /\ phase = "created"
    /\ config = NoConfig
    /\ baseClient = 0
    /\ userClients = << >>
    /\ schema = NoSchema
    /\ clients = << >>
    /\ inflight = << >>
    /\ nCalls = 0
    /\ last = NoEvent
    /\ handed = {}
    /\ stores = {}

\* The tools called here: a paged one, globalSearch, a write tool, the
\* introspection tool and a name that is not registered
ServedTools ==
    {"get_projects", "search_gitlab", "create_issue", "get_available_queries", "no_such_tool"}

\* Arguments sent to them: with and without credentials, malformed, and page
\* sizes at and beyond the input schema's limit
ServerArgs(name) ==
    { a \in [ userCredentials : {NoCred, Cred("", "x"), EmptyTokenCred},
              wellFormed : BOOLEAN,
              requiresWrite : {FALSE},
              payload : {"query", "mutation", "introspection"},
              first : {NoFirst, MaxFirst, MaxFirst + 1} ] :
        /\ ~a.wellFormed => a.userCredentials = NoCred
        /\ a.first # NoFirst => name \in PagedToolNames /\ a.wellFormed
        /\ a.payload =
             (IF name \in WriteToolNames THEN "mutation"
              ELSE IF name = "get_available_queries" THEN "introspection"
              ELSE "query") }

ServerNext ==
    \/ Run
    \/ RunFails
    \/ Startup
    \/ \E name \in ServedTools : \E args \in ServerArgs(name) :
          CallTool(name, args)
    \/ \E id \in DOMAIN inflight, r \in Responses : Respond(id, r)

ServerSpec == ServerInit /\ [][ServerNext]_vars

----------------------------------------------------------------------------
(* Properties *)

\* The last step ran getClient: a call started, reached a client method, and
\* (for introspectSchema) found no schema stored. A start step leaves `schema`
\* unchanged, so schema.present is what the call saw.
Resolved ==
    /\ last.event = "start"
    /\ last.op # "-"
    /\ ~(last.op = "introspect" /\ schema.present)

\* The last step issued client.request(...) on last.client
Sent == last.event = "start" /\ last.status = "sent"

NoCredential == ~last.cred.present

C4_NoMutationOnSharedClient ==
    (Sent /\ last.origin = "tool" /\ baseClient # 0 /\ last.client = baseClient) =>
        last.payload # "mutation"

\* C5: a read without a user credential resolves to the shared client if and only
\* if a shared token is configured and the mode is not per-user.
C5_ReadFallsBackToShared ==
    (Resolved /\ ~last.requiresWrite /\ NoCredential) =>
        ( (last.decision = "shared" /\ last.client = baseClient /\ last.status = "sent")
          <=> (config.sharedAccessToken # "" /\ config.authMode # "per-user") )

C5_Witness ==
    /\ Resolved /\ ~last.requiresWrite /\ NoCredential
    /\ last.origin = "tool"
    /\ config.authMode = "hybrid" /\ config.sharedAccessToken # ""
    /\ last.decision = "shared"

\* C6: a read without a user credential that cannot use the shared client is
\* rejected with "This operation requires user authentication" in per-user and
\* hybrid mode, and with "No authentication configured" exactly when the mode is
\* shared and no shared token is configured.
C6_ReadRejectionReasons ==
    (Resolved /\ ~last.requiresWrite /\ NoCredential /\ last.decision # "shared") =>
        /\ last.status = "error"
        /\ last.decision = "throw"
        /\ config.authMode \in {"per-user", "hybrid"} => Reason(last.error) = UserAuthMsg
        /\ Reason(last.error) = NoAuthMsg
              <=> (config.authMode = "shared" /\ config.sharedAccessToken = "")

C6_Witness ==
    /\ Resolved /\ ~last.requiresWrite /\ NoCredential
    /\ config.authMode = "shared" /\ config.sharedAccessToken = ""
    /\ Reason(last.error) = NoAuthMsg

\* C7: in per-user mode every invocation of a registered tool made without user
\* credentials fails instead of returning a result.
C7_PerUserModeRequiresCredentials ==
    ( /\ config.authMode = "per-user"
      /\ last.event = "start" /\ last.origin = "tool" /\ last.tool \in ToolNames
      /\ NoCredential ) =>
        last.status = "error"

\* C8: in hybrid mode get_current_user and get_projects invoked without user
\* credentials are rejected, also when a shared token is configured.
C8_UserAuthToolsRequireCredentials ==
    ( /\ config.authMode = "hybrid"
      /\ last.event = "start" /\ last.origin = "tool" /\ last.tool \in userAuthTools
      /\ NoCredential ) =>
        last.status = "error"

\* C9: in shared mode, with the shared token configured, every exchange goes
\* through the shared client, also when the caller supplies user credentials.
C9_SharedModeUsesOnlySharedClient ==
    (config.authMode = "shared" /\ baseClient # 0 /\ Sent) =>
        last.client = baseClient

\* C10: a resolution with a user credential whose (effective endpoint, token)
\* was resolved before returns the very same client and constructs none.
C10_LookupIdempotentPerIdentity ==
    [][ \A h \in handed :
          ( /\ last'.seq # last.seq /\ last'.event = "start" /\ last'.decision = "user"
            /\ EffectiveUrl(last'.cred) = h.endpoint
            /\ last'.cred.accessToken = h.token ) =>
              /\ last'.client = h.client
              /\ clients' = clients
              /\ ~last'.constructed ]_vars

C10_Witness ==
    /\ last.event = "start" /\ last.decision = "user" /\ ~last.constructed
    /\ last.cred = Cred(ProcessUrl, "80:x")
    /\ Cardinality(handed) = 1
    /\ Len(clients) = 1 /\ baseClient = 0

\* C11: every client handed out for a user credential carries that credential's
\* own effective endpoint and its own token, and two credentials that differ in
\* endpoint or in token are never handed the same client.
C11_ClientBoundToOneIdentity ==
    /\ (Sent /\ last.decision = "user") =>
          clients[last.client] =
              createClient(EffectiveUrl(last.cred), last.cred.accessToken)
    /\ \A a, b \in handed :
          (a.endpoint # b.endpoint \/ a.token # b.token) => a.client # b.client

\* C12: the cache holds exactly one user client per distinct (effective
\* endpoint, token) identity that calls have carried so far, whatever their order
\* and repetitions, besides at most one shared client.
C12_OneUserClientPerIdentity ==
    LET identities == {[endpoint |-> h.endpoint, token |-> h.token] : h \in handed}
        shared == IF baseClient = 0 THEN 0 ELSE 1
    IN  /\ Cardinality(DOMAIN userClients) = Cardinality(identities)
        /\ Len(clients) = Cardinality(identities) + shared

\* C13: when a call resolves a user credential while other calls are still
\* suspended on a client that was handed out for the same identity, it is given
\* that same client and constructs none: the calls in flight for one identity
\* all run on the one client constructed for it.
C13_ConcurrentUsesShareOneClient ==
    (Sent /\ last.decision = "user") =>
        \A id \in DOMAIN inflight \ {last.seq} :
            [ endpoint |-> EffectiveUrl(last.cred),
              token |-> last.cred.accessToken,
              client |-> inflight[id].client ] \in handed
            => /\ inflight[id].client = last.client
               /\ ~last.constructed
               /\ inflight[last.seq].client = last.client

\* Two calls of the only identity seen so far are suspended at once, on the
\* single client that exists
C13_Witness ==
    /\ Sent /\ last.decision = "user" /\ ~last.constructed
    /\ Cardinality(handed) = 1
    /\ Len(clients) = 1
    /\ Cardinality(DOMAIN inflight) = 2
    /\ \A id \in DOMAIN inflight : inflight[id].client = last.client

\* C14: an introspectSchema call issues an introspection exchange only if every
\* earlier attempt has failed: none has stored the schema and none is still
\* awaiting its exchange; once an attempt succeeded, a call returns without
\* issuing a request.
C14_IntrospectionMemoized ==
    (last.event = "start" /\ last.op = "introspect") =>
        /\ stores # {} =>
              /\ last.status = "ok"
              /\ last.decision = "none"
              /\ last.seq \notin DOMAIN inflight
        /\ last.status = "sent" =>
              /\ stores = {}
              /\ \A id \in DOMAIN inflight \ {last.seq} : inflight[id].op # "introspect"

\* C15: under overlapping introspectSchema calls the schema is assigned by at
\* most one call, and once stored it is never overwritten or cleared.
C15_SchemaStoredOnce ==
    /\ Cardinality(stores) <= 1
    /\ schema.present => stores = {schema.by}
    /\ stores # {} => schema.present

\* C16: an introspectSchema call that fails (rejected by getClient or failed
\* exchange) reports the failure and stores nothing, the schema stays absent as
\* long as no attempt has succeeded, a later call that obtains a client then
\* issues a fresh exchange, and a successful exchange stores the schema.
C16_FailedIntrospectionNotCached ==
    /\ (last.op = "introspect" /\ last.status = "error") =>
          /\ last.error # NoError
          /\ last.seq \notin stores
          /\ schema.by # last.seq
    /\ stores = {} => schema = NoSchema
    /\ (last.event = "start" /\ last.op = "introspect" /\ stores = {}) =>
          \/ last.decision = "throw" /\ last.status = "error"
          \/ last.status = "sent" /\ last.seq \in DOMAIN inflight
    /\ (last.event = "finish" /\ last.op = "introspect" /\ last.status = "ok") =>
          schema.present /\ last.seq \in stores

\* The start-up introspection (call 1) failed, and the next call, an
\* introspectSchema issued after it, has just stored the schema
C16_Witness ==
    /\ config.sharedAccessToken # ""
    /\ last.event = "finish" /\ last.op = "introspect" /\ last.status = "ok"
    /\ last.seq = 2
    /\ stores = {2}

\* C17: a call of getAvailableQueries or getAvailableMutations made while no
\* introspection has succeeded returns the empty sequence, and a call of either
\* view leaves the schema, the user clients and the shared client as they were.
C17_ViewsEmptyUntilIntrospected ==
    [][ last'.event = "view" =>
          /\ stores = {} => last'.result = << >>
          /\ schema' = schema
          /\ userClients' = userClients
          /\ clients' = clients
          /\ baseClient' = baseClient ]_vars

\* getAvailableQueries was called after an introspection attempt that failed
C17_Witness ==
    /\ last.event = "view" /\ last.op = "getAvailableQueries"
    /\ last.result = << >>
    /\ nCalls > 0 /\ inflight = << >>
    /\ stores = {}

\* C18: every exchange in progress is subject to the configured request
\* timeout: the client it was issued on carries config.defaultTimeout, so that a
\* remote that never answers makes the call fail instead of waiting for ever.
C18_ExchangeSubjectToTimeout ==
    \A id \in DOMAIN inflight :
        clients[inflight[id].client].timeout = config.defaultTimeout

\* C19: no step removes a cache entry or replaces the client stored under a key,
\* no step changes a constructed client or, once the process is constructed,
\* the shared client, and the completion of a request, failed or not, changes
\* neither the user clients nor the shared client.
C19_CacheNeverEvicts ==
    [][ /\ \A k \in DOMAIN userClients :
              k \in DOMAIN userClients' /\ userClients'[k] = userClients[k]
        /\ \A i \in 1..Len(clients) :
              i <= Len(clients') /\ clients'[i] = clients[i]
        /\ phase # "created" => baseClient' = baseClient
        /\ (last'.event = "finish" /\ DOMAIN inflight' # DOMAIN inflight) =>
              /\ userClients' = userClients
              /\ clients' = clients
              /\ baseClient' = baseClient ]_vars

\* A request on a user client has just failed while the cache holds that
\* client and the shared client
C19_Witness ==
    /\ last.event = "finish" /\ last.status = "error"
    /\ baseClient # 0 /\ last.client # baseClient
    /\ \E k \in DOMAIN userClients : userClients[k] = last.client
    /\ Len(clients) = 2

\* C20: no user token outlives the call that supplied it: every cache key and
\* every Authorization header of a cached user client belongs to a call that is
\* still in progress.
C20_UserTokenNotKeptAfterCall ==
    /\ \A k \in DOMAIN userClients :
          \E id \in DOMAIN inflight : inflight[id].client = userClients[k]
    /\ \A i \in 1..Len(clients) :
          i # baseClient =>
              \E id \in DOMAIN inflight :
                  clients[inflight[id].client].authorization = clients[i].authorization

\* C21: no request sent by a tool carries a page size (`first`) greater than
\* the configured maxPageSize.
C21_PageSizeWithinConfiguredMax ==
    (Sent /\ last.origin = "tool" /\ last.first # NoFirst) =>
        last.first <= config.maxPageSize

C23_InvalidConfigFailsStartup ==
    LET c == loadConfig(env) IN
    ( \/ ~IsUrl(c.gitlabUrl)
      \/ c.maxPageSize \notin MinPageSize..MaxPageSizeLimit
      \/ c.defaultTimeout < MinTimeoutMs
      \/ c.authMode \notin AuthModes ) =>
        /\ phase \in {"created", "exited"}
        /\ config = NoConfig /\ baseClient = 0 /\ clients = << >>
        /\ nCalls = 0 /\ inflight = << >>
        /\ last.event \in {"none", "exit"}

\* The server has exited on a timeout of 999 ms
C23_Witness ==
    /\ phase = "exited" /\ last.event = "exit" /\ last.status = "error"
    /\ env.GITLAB_TIMEOUT = "999"
    /\ nCalls = 0

\* C24: the step that constructs the client object creates the shared client
\* if and only if a shared token is configured, bound to the configured
\* endpoint and that token; no later step creates, replaces or changes it.
C24_SharedClientConstructedOnce ==
    [][ /\ (phase = "created" /\ phase' = "constructed") =>
              /\ baseClient' # 0 <=> env.GITLAB_SHARED_ACCESS_TOKEN # ""
              /\ baseClient' # 0 =>
                    /\ Len(clients') = 1
                    /\ clients'[baseClient'] =
                          createClient(config'.gitlabUrl, env.GITLAB_SHARED_ACCESS_TOKEN)
        /\ (phase = "created" /\ phase' # "constructed") => baseClient' = 0
        /\ phase # "created" =>
              /\ baseClient' = baseClient
              /\ baseClient # 0 => clients'[baseClient] = clients[baseClient] ]_vars

\* Calls have been served, some on user clients, and the shared client is
\* still the one constructed at start-up
C24_Witness ==
    /\ baseClient = 1 /\ Len(clients) = 2
    /\ clients[1] = createClient(ProcessUrl, "s")
    /\ last.event = "finish" /\ last.client = 2

\* C25: every client resolution has exactly one outcome (user client, shared
\* client or rejection), and its kind is a function of four inputs alone: write
\* or read, credential present or not, the auth mode, shared token configured
\* or not; whatever calls came before and whatever the caches hold.
C25_DecisionDependsOnFourInputs ==
    Resolved =>
        LET outcome ==
                IF last.cred.present THEN "user"
                ELSE IF last.requiresWrite THEN "throw"
                ELSE IF config.sharedAccessToken # "" /\ config.authMode # "per-user"
                THEN "shared"
                ELSE "throw"
        IN  /\ last.decision = outcome
            /\ last.decision = "user" =>
                  /\ last.status = "sent" /\ last.client # baseClient
                  /\ \E k \in DOMAIN userClients : userClients[k] = last.client
            /\ last.decision = "shared" =>
                  /\ last.status = "sent" /\ last.client = baseClient /\ baseClient # 0
            /\ last.decision = "throw" =>
                  /\ last.status = "error" /\ last.error # NoError /\ last.client = 0

\* A read without credentials is rejected although an earlier call has left a
\* user client in the cache
C25_Witness ==
    /\ Resolved /\ NoCredential /\ ~last.requiresWrite
    /\ last.decision = "throw"
    /\ last.seq = 2
    /\ DOMAIN userClients # {}

\* C26: a call whose client resolution is rejected (no user credential, and a
\* write or no usable shared client) issues no exchange on any client and
\* leaves the user clients, the shared client and the schema as they were.
C26_RejectedResolutionHasNoEffect ==
    [][ (nCalls' # nCalls /\ last'.decision = "throw") =>
          /\ ~last'.cred.present
          /\ \/ last'.requiresWrite
             \/ baseClient = 0
             \/ config.authMode = "per-user"
          /\ inflight' = inflight
          /\ userClients' = userClients
          /\ clients' = clients
          /\ baseClient' = baseClient
          /\ schema' = schema
          /\ last'.status = "error" /\ last'.client = 0 ]_vars

\* A write without credentials has been rejected while another call is in
\* flight on a cached user client
C26_Witness ==
    /\ last.event = "start" /\ last.decision = "throw" /\ last.requiresWrite
    /\ last.seq = 2
    /\ DOMAIN inflight = {1}
    /\ DOMAIN userClients # {}

\* C27: a tool invocation that fails is answered with an error made of an
\* error code and a reason, never with a result: when its userCredentials are
\* rejected by the input schema, when client resolution rejects it, when its
\* exchange fails, and when the handler cannot use what the exchange returned.
C27_ToolFailuresAnsweredWithError ==
    (last.origin = "tool" /\ last.tool \in ToolNames) =>
        /\ last.status \in {"sent", "ok", "error"}
        /\ ( \/ last.cred.present /\ last.cred.accessToken = ""
             \/ tools[last.tool].credentialsRequired /\ ~last.cred.present /\ last.event = "start"
             \/ last.decision = "throw"
             \/ last.response = "failure"
             \/ last.response = "unusable" /\ tools[last.tool].method # "query" )
           => last.status = "error"
        /\ last.status = "error" =>
              /\ Len(last.error) >= 2
              /\ last.error[1] = "InternalError"
              /\ Reason(last.error) # ""
              /\ last.result = << >>
              /\ last.seq \notin DOMAIN inflight
        /\ last.status # "error" => last.error = NoError

\* get_projects got a response its handler cannot read: the caller gets an error
C27_Witness ==
    /\ last.origin = "tool" /\ last.tool = "get_projects"
    /\ last.event = "finish" /\ last.response = "unusable"
    /\ last.status = "error"
    /\ Reason(last.error) = "handler could not read the result"

\* C28: a call of a name that is not a registered tool is answered with
\* MethodNotFound whatever its arguments are, reaches no client method, issues
\* no exchange and changes neither the clients nor the schema.
C28_UnknownToolRejectedFirst ==
    [][ (nCalls' # nCalls /\ last'.origin = "tool" /\ last'.tool \notin ToolNames) =>
          /\ last'.status = "error"
          /\ last'.error = <<"MethodNotFound", "Tool not found">>
          /\ last'.op = "-" /\ last'.decision = "none" /\ last'.client = 0
          /\ inflight' = inflight
          /\ userClients' = userClients
          /\ clients' = clients
          /\ baseClient' = baseClient
          /\ schema' = schema ]_vars

\* An unregistered name called with credentials the input schemas reject
C28_Witness ==
    /\ last.origin = "tool" /\ last.tool = "no_such_tool"
    /\ last.cred = EmptyTokenCred
    /\ last.error = <<"MethodNotFound", "Tool not found">>

\* C29: when the startup introspection fails, at its resolution or at its
\* exchange, the server is connected and serving afterwards with no schema
\* stored, and a get_available_queries call that obtains a client while no
\* schema is stored issues the introspection exchange again.
C29_StartupIntrospectionFailureNonFatal ==
    /\ (last.origin = "startup" /\ last.status = "error") =>
          /\ phase = "connected"
          /\ schema = NoSchema /\ stores = {}
          /\ config.sharedAccessToken # ""
    /\ (phase = "connected" /\ nCalls < MaxCalls /\ inflight = << >>) =>
          ENABLED (\E args \in ServerArgs("get_available_queries") :
                      CallTool("get_available_queries", args))
    /\ ( /\ last.origin = "tool" /\ last.tool = "get_available_queries"
         /\ last.event = "start" /\ stores = {}
         /\ last.status # "error" ) =>
          /\ last.op = "introspect" /\ last.status = "sent"
          /\ last.seq \in DOMAIN inflight

\* The startup introspection (call 1) failed; get_available_queries, called
\* afterwards, introspected again and has stored the schema
C29_Witness ==
    /\ config.sharedAccessToken # "" /\ config.authMode = "hybrid"
    /\ last.origin = "tool" /\ last.tool = "get_available_queries"
    /\ last.event = "finish" /\ last.status = "ok" /\ last.seq = 2
    /\ stores = {2}
    /\ last.result = <<"queries", "mutations">>

\* C30: while the auth mode is per-user no exchange is in progress on the
\* shared client, and no call, the startup introspection included, has been
\* given the shared client.
C30_PerUserModeNeverUsesSharedClient ==
    config.authMode = "per-user" =>
        /\ \A id \in DOMAIN inflight : inflight[id].client # baseClient
        /\ last.decision # "shared"
        /\ last.event \in {"start", "finish"} => (last.client = 0 \/ last.client # baseClient)
        /\ (last.origin = "startup" /\ last.event = "start") =>
              last.decision = "throw" /\ last.status = "error"

\* Per-user mode with a shared token configured: the startup introspection was
\* rejected, and a call with credentials is in flight on a user client
C30_Witness ==
    /\ config.authMode = "per-user" /\ baseClient # 0
    /\ last.origin = "tool" /\ last.status = "sent" /\ last.decision = "user"
    /\ last.seq = 2
    /\ inflight[2].client # baseClient

====
